---- MODULE Spec2Model ----
(***************************************************************************)
(* Model of yolo.py: the YoloLayer loss component (its constructor, the    *)
(* warm-up counter and the tensors computed by YoloLayer.call) and the     *)
(* model builders that instantiate one YoloLayer per detection scale.      *)
(*                                                                         *)
(* Execution model.  The code is a TensorFlow-1 graph: YoloLayer.call is   *)
(* traced once per layer instance when the model is built and creates the  *)
(* variable batch_seen (initial value 0); every training step then         *)
(* executes the traced operations once.  A "forward invocation" below is   *)
(* one such execution of the operations of one layer instance.             *)
(*                                                                         *)
(* Numbers.  Coordinates are kept as integers in half-cell units (value    *)
(* times 2), so that the constant 0.5 of the source is the integer 1.      *)
(***************************************************************************)
EXTENDS Integers, Sequences, FiniteSets, TLC

\* ------------------------------------------------------------------ bounds
MaxSteps   == 3      \* training steps explored
MaxWarmup  == 1      \* largest warmup_batches explored
MaxGridH   == 1      \* largest runtime grid height (rows of y_true)
MaxGridW   == 2      \* largest runtime grid width (columns of y_true)
MaxCtorGrid == 4     \* largest max_grid_h and max_grid_w given to __init__
MaxBatchSize == 2    \* largest batch_size given to __init__
MaxCoord   == 2      \* largest box-center coordinate of the IoU lattice
MaxSize    == 2      \* largest box width and height of the IoU lattice
MaxBoxes   == 2      \* slots of the true-boxes tensor (max_box_per_image)

\* -------------------------------------------------------- program constants
NumAnchors == 3      \* anchors per scale (shape [1,1,1,3,2])
Float32ExactMax == 16777216  \* 2^24: adding 1. to a float32 is exact below it

VARIABLES
    model_type,      \* the builder that constructed the train model
    warmup_batches,  \* YoloLayer.warmup_batches (the same for every scale)
    batch_seen,      \* per layer instance: the variable batch_seen
    calls,           \* per layer instance: forward invocations performed
    phase,           \* per layer instance: branch taken by its last tf.cond
    last,            \* inputs and outputs of the last forward invocation
    layer,           \* a YoloLayer under construction: arguments and cell_grid
    sliced,          \* cell_grid[:, :grid_h, :grid_w, :, :] of a forward pass
    pair,            \* one predicted box, one true box and their IoU scores
    fwd,             \* matcher, objectness and statistics of a forward pass
    build,           \* arguments and results of the model-building functions
    summed,          \* error terms of a batch and the loss returned for them
    replay           \* one layer invoked repeatedly on the same inputs

vars == <<model_type, warmup_batches, batch_seen, calls, phase, last,
          layer, sliced, pair, fwd, build, summed, replay>>

trainVars == <<model_type, warmup_batches, batch_seen, calls, phase, last>>
gridVars  == <<layer, sliced>>
lossVars  == <<pair, fwd>>
termVars  == <<summed, replay>>

\* ------------------------------------------------------------ model builders
ModelTypes == {"full", "tiny", "micro"}

get_num_yolo_scales_three(mt) == 3

get_num_yolo_scales(mt) ==
    CASE mt = "full"  -> 3
      [] mt = "tiny"  -> 2
      [] mt = "micro" -> 2

\* The loss components (YoloLayer instances) of the train model.
LossLayers(mt) == 1 .. get_num_yolo_scales(mt)

\* -------------------------------------------------------- YoloLayer.__init__
\* tf.range(n)
Range(n) == [i \in 0 .. n - 1 |-> i]

\* tf.tile(v, [reps]) of a vector of length n
Tile(v, n, reps) == [k \in 0 .. n * reps - 1 |-> v[k % n]]

\* tf.reshape(flat, (1, h, w, 1, 1)), row-major; the axes of length 1 are
\* dropped from the index.
Reshape(flat, h, w) ==
    [p \in (0 .. h - 1) \X (0 .. w - 1) |-> flat[p[1] * w + p[2]]]

\* tf.transpose(t, (0,2,1,3,4)) of a tensor of shape (1, h, w, 1, 1)
Transpose(t, h, w) ==
    [p \in (0 .. w - 1) \X (0 .. h - 1) |-> t[<<p[2], p[1]>>]]

\* tf.concat([a, b], -1): every axis but the last must agree, or the
\* operation raises ValueError when it is created.
Concat(a, b) ==
    IF DOMAIN a = DOMAIN b
    THEN [status |-> "ok", value |-> [p \in DOMAIN a |-> <<a[p], b[p]>>]]
    ELSE [status |-> "ValueError", value |-> <<>>]

\* tf.tile(t, [batch_size, 1, 1, 3, 1]); index <<batch, row, column, anchor>>
TileBatchAnchors(t, h, w, batch_size) ==
    [q \in (0 .. batch_size - 1) \X (0 .. h - 1) \X (0 .. w - 1)
            \X (0 .. NumAnchors - 1) |-> t[<<q[2], q[3]>>]]

\* The mesh grid built by the constructor, or the error it raises.
BuildCellGrid(max_grid_h, max_grid_w, batch_size) ==
    LET cell_x == Reshape(Tile(Range(max_grid_w), max_grid_w, max_grid_h),
                          max_grid_h, max_grid_w)
        cell_y == Transpose(cell_x, max_grid_h, max_grid_w)
        xy     == Concat(cell_x, cell_y)
    IN  IF xy.status = "ValueError"
        THEN [status |-> "ValueError", grid |-> <<>>]
        ELSE [status |-> "built",
              grid |-> TileBatchAnchors(xy.value, max_grid_h, max_grid_w,
                                        batch_size)]

\* self.cell_grid[:, :grid_h, :grid_w, :, :]
SliceGrid(cell_grid, grid_h, grid_w) ==
    [q \in {r \in DOMAIN cell_grid : r[2] < grid_h /\ r[3] < grid_w} |->
        cell_grid[q]]

\* ------------------------------------------------------------- tensor shapes
\* Index set of a [grid_h, grid_w, 3] tensor of one batch element.
Cells(grid_h, grid_w) ==
    (0 .. grid_h - 1) \X (0 .. grid_w - 1) \X (0 .. NumAnchors - 1)

\* [1*num for num in max_grid], [2*num ...], [4*num ...]: the max_grid the
\* builders give to the loss layer of each scale (base max_grid is square).
LayerMaxGrid(s) ==
    LET base == IF MaxGridH > MaxGridW THEN MaxGridH ELSE MaxGridW
        mult == CASE s = 1 -> 1 [] s = 2 -> 2 [] s = 3 -> 4
    IN  <<mult * base, mult * base>>

\* self.cell_grid[:, :grid_h, :grid_w, :, :] of loss layer s, for the first
\* batch element.
CellGridSlice(s, grid_h, grid_w) ==
    LET built == BuildCellGrid(LayerMaxGrid(s)[1], LayerMaxGrid(s)[2], 1)
        slice == SliceGrid(built.grid, grid_h, grid_w)
    IN  [c \in Cells(grid_h, grid_w) |-> slice[<<0, c[1], c[2], c[3]>>]]

\* Ground-truth tensors y_true offered to a forward invocation.  A cell is
\* <<row, column, anchor>>; obj is y_true[..., 4]; xy is y_true[..., 0:2] in
\* half-cell units; wh is y_true[..., 2:4] (size logits).  The cells of
\* objs carry an object; the empty cells hold `fill` in every component
\* (fill = 0 is what a zero-initialised tensor holds there).
GroundTruth(grid_h, grid_w, objs, fill) ==
    [c \in Cells(grid_h, grid_w) |->
        IF c \in objs
        THEN [obj |-> 1, xy |-> <<2 * c[2] + 1, 2 * c[1] + 1>>, wh |-> <<1, -1>>]
        ELSE [obj |-> 0, xy |-> <<2 * fill, 2 * fill>>, wh |-> <<fill, fill>>]]

\* The shapes of y_true explored: the smallest grid and the largest one.
GridShapes == {<<1, 1>>, <<MaxGridH, MaxGridW>>}

\* The object masks explored: no object, one object at any cell and anchor,
\* an object at every cell and anchor.
ObjectSets(grid_h, grid_w) ==
    {{}, Cells(grid_h, grid_w)} \cup {{c} : c \in Cells(grid_h, grid_w)}

\* ------------------------------------------------------------ YoloLayer.call
\* batch_seen = tf.assign_add(batch_seen, 1.) on a float32 variable
assign_add(v) == IF v < Float32ExactMax THEN v + 1 ELSE v

\* The value tf.less reads is the output of the assign_add operation.
CondReadsOld(before, after) == before
CondReads(before, after) == after

\* The layer's own variable is updated; every other layer's is left alone.
AssignAddShared(bs, s) == [t \in DOMAIN bs |-> assign_add(bs[t])]
UpdateCounter(bs, s) == [bs EXCEPT ![s] = assign_add(@)]

\* tf.less(batch_seen, self.warmup_batches + 1)
InWarmupGreater(seen, wb) == seen > wb + 1
InWarmupNoPlusOne(seen, wb) == seen < wb
InWarmupLessEqual(seen, wb) == seen <= wb + 1
InWarmup(seen, wb) == seen < wb + 1

\* The three results of the tf.cond: the regression targets and the
\* localization mask.
WarmupReplace(y_true, grid, warm) ==
    [c \in DOMAIN y_true |->
        IF warm
        THEN [xy   |-> IF y_true[c].obj = 0
                       THEN <<1 + 2 * grid[c][1], 1 + 2 * grid[c][2]>>
                       ELSE y_true[c].xy,
              wh   |-> IF y_true[c].obj = 0 THEN <<0, 0>> ELSE y_true[c].wh,
              mask |-> 1]
        ELSE [xy |-> y_true[c].xy, wh |-> y_true[c].wh, mask |-> y_true[c].obj]]

WarmupCond(y_true, grid, warm) ==
    [c \in DOMAIN y_true |->
        IF warm
        THEN [xy   |-> <<y_true[c].xy[1] + (1 + 2 * grid[c][1]) * (1 - y_true[c].obj),
                         y_true[c].xy[2] + (1 + 2 * grid[c][2]) * (1 - y_true[c].obj)>>,
              wh   |-> <<y_true[c].wh[1] + 0 * (1 - y_true[c].obj),
                         y_true[c].wh[2] + 0 * (1 - y_true[c].obj)>>,
              mask |-> 1]
        ELSE [xy |-> y_true[c].xy, wh |-> y_true[c].wh, mask |-> y_true[c].obj]]

NoCall == [layer |-> 0, seen |-> 0, warm |-> FALSE, grid_h |-> 0, grid_w |-> 0,
           y_true |-> <<>>, target |-> <<>>]

Unbuilt == [status |-> "unbuilt", grid |-> <<>>]
NoLayer == [max_grid |-> <<0, 0>>, batch_size |-> 0, cell_grid |-> Unbuilt]
NoSlice == [grid_h |-> 0, grid_w |-> 0, grid |-> <<>>]

NoPair == [status |-> "unused"]
NoFwd  == [status |-> "unused"]
NoBuild  == [status |-> "unused"]
NoSummed == [status |-> "unused"]
NoReplay == [status |-> "unused"]

Init ==
    /\ build = NoBuild
    /\ summed = NoSummed
    /\ replay = NoReplay
    /\ layer = NoLayer
    /\ sliced = NoSlice
    /\ pair = NoPair
    /\ fwd = NoFwd
    /\ model_type \in ModelTypes
    /\ warmup_batches \in 0 .. MaxWarmup
    /\ batch_seen = [s \in LossLayers(model_type) |-> 0]
    /\ calls = [s \in LossLayers(model_type) |-> 0]
    /\ phase = [s \in LossLayers(model_type) |-> "none"]
    /\ last = NoCall

\* One forward invocation of loss layer s.  Within a training step every
\* loss layer of the train model runs once, in any order.
Call(s) ==
    /\ calls[s] < MaxSteps
    /\ \A t \in DOMAIN calls : calls[s] <= calls[t]
    /\ \E shape \in GridShapes, fill \in {0, 1} :
       \E objs \in ObjectSets(shape[1], shape[2]) :
          LET grid_h == shape[1]
              grid_w == shape[2]
              y_true == GroundTruth(grid_h, grid_w, objs, fill)
              bs     == UpdateCounter(batch_seen, s)
              seen   == CondReads(batch_seen[s], bs[s])
              warm   == InWarmup(seen, warmup_batches)
          IN  /\ batch_seen' = bs
              /\ calls' = [calls EXCEPT ![s] = @ + 1]
              /\ phase' = [phase EXCEPT ![s] = IF warm THEN "warmup" ELSE "trained"]
              /\ last' = [layer |-> s, seen |-> seen, warm |-> warm,
                          grid_h |-> grid_h, grid_w |-> grid_w,
                          y_true |-> y_true,
                          target |-> WarmupCond(y_true,
                                       CellGridSlice(s, grid_h, grid_w), warm)]
    /\ UNCHANGED <<model_type, warmup_batches, layer, sliced, pair, fwd, build, termVars>>

Next == \E s \in LossLayers(model_type) : Call(s)

Spec == Init /\ [][Next]_vars

\* C1: in every forward invocation the localization mask is 1 at every cell
\* and anchor when the step count it observed is < warmup_batches + 1, and
\* equals the ground-truth objectness indicator otherwise.
WarmupMaskInvariant ==
    last.layer /= 0 =>
        \A c \in DOMAIN last.y_true :
            last.target[c].mask =
                IF last.seen < warmup_batches + 1 THEN 1 ELSE last.y_true[c].obj

WarmupMaskWitness ==
    /\ last.layer /= 0
    /\ last.seen < warmup_batches + 1
    /\ \E c \in DOMAIN last.y_true :
          last.y_true[c].obj = 0 /\ last.target[c].mask = 1
    /\ \E c \in DOMAIN last.y_true : last.y_true[c].obj = 1

\* C2: once an invocation of a layer instance has taken the post-warm-up
\* branch, every later invocation of that instance takes it too.
WarmupNeverReentered ==
    [][\A s \in DOMAIN phase : phase[s] = "trained" => phase'[s] = "trained"]_vars

WarmupLeftWitness ==
    \E s \in DOMAIN phase :
        /\ phase[s] = "trained"
        /\ warmup_batches > 0
        /\ calls[s] > warmup_batches + 1

\* C3: the batch counter starts at 0 and grows by exactly 1 per forward
\* invocation, so it equals the number of invocations performed, and the
\* warm-up decision of an invocation reads the value that invocation wrote.
CounterCountsInvocations ==
    /\ \A s \in DOMAIN batch_seen : batch_seen[s] = calls[s]
    /\ last.layer /= 0 => last.seen = batch_seen[last.layer]

CounterWitness ==
    /\ last.layer /= 0
    /\ calls[last.layer] = 2
    /\ last.seen = 2
    /\ \E t \in DOMAIN calls : calls[t] = 1

\* C4: a forward invocation of one scale's loss layer changes no other
\* scale's counter; under every interleaving the layers that have completed
\* the same number of steps are in the same warm-up phase, the phase a
\* sequential evaluation of that step gives.
ScalesIndependent ==
    /\ [][\A t \in DOMAIN batch_seen :
            batch_seen'[t] /= batch_seen[t] => last'.layer = t]_vars
    /\ [](\A s, t \in DOMAIN calls :
            (calls[s] = calls[t] /\ calls[s] > 0) => phase[s] = phase[t])
    /\ [](\A s \in DOMAIN calls :
            calls[s] > 0 =>
                phase[s] = IF calls[s] < warmup_batches + 1
                           THEN "warmup" ELSE "trained")

ScalesIndependentWitness ==
    /\ model_type = "full"
    /\ last.layer = 1
    /\ \A s \in DOMAIN calls : calls[s] = warmup_batches + 1
    /\ \A s \in DOMAIN phase : phase[s] = "trained"

\* C6 as stated: during warm-up every empty cell's regression target is
\* (0.5 + cell coordinate) with zero size offset, for every ground-truth
\* tensor, and object cells keep their ground truth.
WarmupTargetsSynthetic ==
    (last.layer /= 0 /\ last.warm) =>
        \A c \in DOMAIN last.y_true :
            IF last.y_true[c].obj = 0
            THEN /\ last.target[c].xy = <<1 + 2 * c[2], 1 + 2 * c[1]>>
                 /\ last.target[c].wh = <<0, 0>>
            ELSE /\ last.target[c].xy = last.y_true[c].xy
                 /\ last.target[c].wh = last.y_true[c].wh

\* C6 amended: during warm-up every empty cell's target center is its
\* ground-truth center plus (0.5 + cell coordinate) and its target
\* size-logit is its ground-truth size-logit; these are (0.5 + cell
\* coordinate) and zero offset when the ground truth is zero at that cell.
\* Object cells keep their ground truth.
WarmupTargetsAdded ==
    (last.layer /= 0 /\ last.warm) =>
        \A c \in DOMAIN last.y_true :
            IF last.y_true[c].obj = 0
            THEN /\ last.target[c].xy = <<last.y_true[c].xy[1] + 1 + 2 * c[2],
                                         last.y_true[c].xy[2] + 1 + 2 * c[1]>>
                 /\ last.target[c].wh = last.y_true[c].wh
                 /\ (last.y_true[c].xy = <<0, 0>> /\ last.y_true[c].wh = <<0, 0>>)
                        => /\ last.target[c].xy = <<1 + 2 * c[2], 1 + 2 * c[1]>>
                           /\ last.target[c].wh = <<0, 0>>
            ELSE /\ last.target[c].xy = last.y_true[c].xy
                 /\ last.target[c].wh = last.y_true[c].wh

WarmupTargetsWitness ==
    /\ last.layer /= 0
    /\ last.warm
    /\ \E c, d \in DOMAIN last.y_true :
          /\ last.y_true[c].obj = 1
          /\ last.y_true[d].obj = 0
          /\ d[2] = 1
          /\ last.y_true[d].xy /= <<0, 0>>
          /\ last.target[d].xy = <<5, 3>>

\* C16: with warmup_batches = N and a fresh counter, the k-th forward
\* invocation of a layer uses warm-up targets exactly when k <= N: the first N
\* invocations do, every later one does not, none does when N = 0, and the
\* invocation that observes the counter value N still does.
WarmupLastsNInvocations ==
    [][\A s \in DOMAIN calls :
          calls'[s] = calls[s] + 1 =>
             /\ last'.layer = s
             /\ last'.warm <=> (calls'[s] <= warmup_batches)
             /\ phase'[s] = (IF calls'[s] <= warmup_batches
                             THEN "warmup" ELSE "trained")
             /\ last'.seen = warmup_batches => last'.warm
             /\ warmup_batches = 0 => ~last'.warm]_vars

WarmupBoundaryWitness ==
    /\ warmup_batches > 0
    /\ last.seen = warmup_batches
    /\ calls[last.layer] = warmup_batches
    /\ last.warm

\* --------------------------------------------- the constructor's mesh grid
InitGrid ==
    /\ build = NoBuild
    /\ summed = NoSummed
    /\ replay = NoReplay
    /\ model_type = "full"
    /\ warmup_batches = 0
    /\ batch_seen = <<>>
    /\ calls = <<>>
    /\ phase = <<>>
    /\ last = NoCall
    /\ \E h \in 1 .. MaxCtorGrid, w \in 1 .. MaxCtorGrid, b \in 1 .. MaxBatchSize :
          layer = [max_grid |-> <<h, w>>, batch_size |-> b, cell_grid |-> Unbuilt]
    /\ sliced = NoSlice
    /\ pair = NoPair
    /\ fwd = NoFwd

\* YoloLayer.__init__(max_grid, batch_size, ...)
Construct ==
    /\ layer.cell_grid.status = "unbuilt"
    /\ layer' = [layer EXCEPT !.cell_grid =
                    BuildCellGrid(layer.max_grid[1], layer.max_grid[2],
                                  layer.batch_size)]
    /\ UNCHANGED <<trainVars, sliced, lossVars, build, termVars>>

\* The slice a forward pass takes of the grid of a constructed layer.
Slice ==
    /\ layer.cell_grid.status = "built"
    /\ \E grid_h \in 1 .. layer.max_grid[1], grid_w \in 1 .. layer.max_grid[2] :
          sliced' = [grid_h |-> grid_h, grid_w |-> grid_w,
                     grid |-> SliceGrid(layer.cell_grid.grid, grid_h, grid_w)]
    /\ UNCHANGED <<trainVars, layer, lossVars, build, termVars>>

NextGrid == Construct \/ Slice

SpecGrid == InitGrid /\ [][NextGrid]_vars

\* C10: for every max_grid given to the constructor, non-square ones
\* included, the layer is constructed and its grid holds (x, y) at row y and
\* column x for every batch element and anchor, and so does every slice.
CellGridInvariant ==
    /\ layer.cell_grid.status /= "unbuilt" =>
          /\ layer.cell_grid.status = "built"
          /\ DOMAIN layer.cell_grid.grid =
                (0 .. layer.batch_size - 1) \X (0 .. layer.max_grid[1] - 1)
                    \X (0 .. layer.max_grid[2] - 1) \X (0 .. NumAnchors - 1)
          /\ \A q \in DOMAIN layer.cell_grid.grid :
                layer.cell_grid.grid[q] = <<q[3], q[2]>>
    /\ \A q \in DOMAIN sliced.grid : sliced.grid[q] = <<q[3], q[2]>>

\* What holds of the code: the invariant on the layers that are constructed.
CellGridInvariantWhenBuilt ==
    /\ layer.cell_grid.status = "built" =>
          /\ layer.max_grid[1] = layer.max_grid[2]
          /\ \A q \in DOMAIN layer.cell_grid.grid :
                layer.cell_grid.grid[q] = <<q[3], q[2]>>
    /\ \A q \in DOMAIN sliced.grid : sliced.grid[q] = <<q[3], q[2]>>

\* ------------------------------------------------------------ the IoU matcher
\* A box is [cx, cy, w, h]: its center in half-units (twice the normalized
\* coordinate) and its width and height in units, as they are after the
\* divisions by grid_factor and net_factor.  A size of 0 is what
\* tf.exp(t) * anchor gives when the float32 exponential underflows or the
\* anchor dimension is 0, and what an unused slot of true_boxes holds.
\* Lengths below are in half-units and areas in quarter-units, which leaves
\* every ratio of areas unchanged.
\*
\* A float result is [n, d], the exact quotient n/d, with d = 0 for the
\* result of a division by zero: NaN for 0/0 and infinity for n/0, n > 0.
NaN == [n |-> 0, d |-> 0]

IsNaN(r) == r.d = 0 /\ r.n = 0

Num(k) == [n |-> k, d |-> 1]

\* tf.truediv(a, b) on floats: no exception, 0/0 is NaN.
truediv(a, b) == [n |-> a, d |-> b]

\* Float comparisons; every comparison with NaN is false.
Less(r, t) ==
    /\ ~IsNaN(r) /\ ~IsNaN(t)
    /\ IF r.d = 0 THEN FALSE ELSE IF t.d = 0 THEN TRUE
       ELSE r.n * t.d < t.n * r.d

GreaterEqual(r, t) ==
    /\ ~IsNaN(r) /\ ~IsNaN(t)
    /\ IF r.d = 0 THEN TRUE ELSE IF t.d = 0 THEN FALSE
       ELSE r.n * t.d >= t.n * r.d

\* m * r for a mask value m in {0, 1}: 0 * NaN is NaN.
MaskTimes(m, r) == IF r.d = 0 THEN (IF m = 0 THEN NaN ELSE r)
                   ELSE [n |-> m * r.n, d |-> r.d]

\* a + b on floats.
Plus(a, b) ==
    IF a.d = 0 \/ b.d = 0
    THEN (IF IsNaN(a) \/ IsNaN(b) THEN NaN ELSE [n |-> 1, d |-> 0])
    ELSE [n |-> a.n * b.d + b.n * a.d, d |-> a.d * b.d]

Maximum(a, b) == IF a > b THEN a ELSE b
Minimum(a, b) == IF a < b THEN a ELSE b

\* xy - wh / 2 and xy + wh / 2
BoxMins(box)  == <<box.cx - box.w, box.cy - box.h>>
BoxMaxes(box) == <<box.cx + box.w, box.cy + box.h>>

\* intersect_wh = tf.maximum(intersect_maxes - intersect_mins, 0.) and
\* intersect_areas = intersect_wh[..., 0] * intersect_wh[..., 1]
IntersectArea(pred, true) ==
    LET mins  == <<Maximum(BoxMins(pred)[1], BoxMins(true)[1]),
                   Maximum(BoxMins(pred)[2], BoxMins(true)[2])>>
        maxes == <<Minimum(BoxMaxes(pred)[1], BoxMaxes(true)[1]),
                   Minimum(BoxMaxes(pred)[2], BoxMaxes(true)[2])>>
    IN  Maximum(maxes[1] - mins[1], 0) * Maximum(maxes[2] - mins[2], 0)

\* true_areas, pred_areas: w * h, that is (2w) * (2h) in quarter-units
BoxArea(box) == (2 * box.w) * (2 * box.h)

\* union_areas = pred_areas + true_areas - intersect_areas
UnionArea(pred, true) ==
    BoxArea(pred) + BoxArea(true) - IntersectArea(pred, true)

\* iou_scores of the ignore mask: a predicted box against a box of true_boxes
IgnoreIou(pred, true) ==
    truediv(IntersectArea(pred, true), UnionArea(pred, true))

\* iou_scores of the statistics, before the object mask: a predicted box
\* against the box decoded from y_true at the same cell and anchor
StatIou(pred, true) ==
    truediv(IntersectArea(pred, true), UnionArea(pred, true))

LatticeBoxes ==
    [cx : 0 .. MaxCoord, cy : 0 .. MaxCoord, w : 0 .. MaxSize, h : 0 .. MaxSize]

InitIoU ==
    /\ build = NoBuild
    /\ summed = NoSummed
    /\ replay = NoReplay
    /\ model_type = "full"
    /\ warmup_batches = 0
    /\ batch_seen = <<>>
    /\ calls = <<>>
    /\ phase = <<>>
    /\ last = NoCall
    /\ layer = NoLayer
    /\ sliced = NoSlice
    /\ fwd = NoFwd
    /\ \E p \in LatticeBoxes, t \in LatticeBoxes :
          pair = [status |-> "input", pred |-> p, true |-> t]

\* The two IoU computations of a forward pass, on one pair of boxes.
Match ==
    /\ pair.status = "input"
    /\ pair' = [status |-> "matched", pred |-> pair.pred, true |-> pair.true,
                ignore_iou |-> IgnoreIou(pair.pred, pair.true),
                stat_iou |-> StatIou(pair.pred, pair.true)]
    /\ UNCHANGED <<trainVars, gridVars, fwd, build, termVars>>

NextIoU == Match

SpecIoU == InitIoU /\ [][NextIoU]_vars

InUnitInterval(r) == r.d > 0 /\ 0 <= r.n /\ r.n <= r.d

\* Two boxes share no area.
Disjoint(a, b) ==
    \/ BoxMaxes(a)[1] <= BoxMins(b)[1] \/ BoxMaxes(b)[1] <= BoxMins(a)[1]
    \/ BoxMaxes(a)[2] <= BoxMins(b)[2] \/ BoxMaxes(b)[2] <= BoxMins(a)[2]

\* C7: for all box pairs the IoU is in [0,1]; IoU(A,A) = 1 for a box of
\* positive width and height; IoU(A,B) = 0 for disjoint boxes.
IouProperties ==
    pair.status = "matched" =>
        /\ InUnitInterval(pair.ignore_iou)
        /\ (pair.pred = pair.true /\ pair.pred.w > 0 /\ pair.pred.h > 0)
              => pair.ignore_iou.n = pair.ignore_iou.d
        /\ Disjoint(pair.pred, pair.true)
              => (pair.ignore_iou.n = 0 /\ pair.ignore_iou.d > 0)

\* What holds of the code: the three properties on the pairs whose union
\* area is not zero.
IouPropertiesPositiveUnion ==
    (pair.status = "matched" /\ UnionArea(pair.pred, pair.true) > 0) =>
        /\ InUnitInterval(pair.ignore_iou)
        /\ (pair.pred = pair.true /\ pair.pred.w > 0 /\ pair.pred.h > 0)
              => pair.ignore_iou.n = pair.ignore_iou.d
        /\ Disjoint(pair.pred, pair.true) => pair.ignore_iou.n = 0

\* C8: when the union area of the two boxes is zero, both the ignore-mask
\* IoU and the statistics IoU are 0, not an undefined value.
ZeroUnionGivesZeroIou ==
    (pair.status = "matched" /\ UnionArea(pair.pred, pair.true) = 0) =>
        /\ pair.ignore_iou.d > 0 /\ pair.ignore_iou.n = 0
        /\ pair.stat_iou.d > 0 /\ pair.stat_iou.n = 0

\* ------------------------------- objectness error and online statistics
\* The boxes offered to a forward pass: a box of zero size, the unit square
\* A, a box B twice as wide that contains A (IoU(A,B) = 1/2), and a box C
\* disjoint from both.
ZeroBox == [cx |-> 0, cy |-> 0, w |-> 0, h |-> 0]
BoxA    == [cx |-> 1, cy |-> 1, w |-> 1, h |-> 1]
BoxB    == [cx |-> 2, cy |-> 1, w |-> 2, h |-> 1]
BoxC    == [cx |-> 7, cy |-> 1, w |-> 1, h |-> 1]

\* Inputs of one (row, column, anchor) position:
\*   obj   y_true[..., 4]
\*   truth the box decoded from y_true[..., 0:4]
\*   pred  the box decoded from y_pred[..., 0:4]
\*   conf  tf.sigmoid(y_pred[..., 4]) in quarters (1 is 0.25, 3 is 0.75)
\*   hit   1 when argmax of the class logits equals the true class
\* Explored: an object position holds the box A and a prediction of
\* positive size; a zero-size ground-truth box comes with a zero-size
\* prediction; the prediction is either unsure and of the wrong class or
\* confident and of the right class.
CellInputs ==
    {ci \in [obj : {0, 1}, truth : {ZeroBox, BoxA}, pred : {ZeroBox, BoxA, BoxB},
              conf : {1, 3}, hit : {0, 1}] :
        /\ ci.obj = 1 => (ci.truth = BoxA /\ ci.pred /= ZeroBox)
        /\ ci.truth = ZeroBox => ci.pred = ZeroBox
        /\ ci.conf = 1 <=> ci.hit = 0}

\* The positions of a loss tensor of one batch element on a 1 x 1 grid: one
\* per anchor.
LossCells == 1 .. NumAnchors

\* self.ignore_thresh, self.obj_scale, self.noobj_scale
LossConfig == [ignore_thresh |-> [n |-> 1, d |-> 2], obj_scale |-> 5, noobj_scale |-> 2]

\* tf.reduce_max(iou_scores, axis=4) over the slots of true_boxes.  The
\* float maximum of values that include NaN depends on the kernel's
\* evaluation order: it is NaN or the maximum of the other values.
RECURSIVE MaxOf(_, _)
MaxOf(vals, k) ==
    IF k = 1 THEN vals[1]
    ELSE LET m == MaxOf(vals, k - 1)
         IN  IF IsNaN(m) THEN vals[k]
             ELSE IF IsNaN(vals[k]) THEN m
             ELSE IF Less(m, vals[k]) THEN vals[k] ELSE m

reduce_max(vals, nan_wins) ==
    IF nan_wins /\ \E k \in DOMAIN vals : IsNaN(vals[k])
    THEN NaN
    ELSE MaxOf(vals, Len(vals))

\* tf.to_float(best_ious < self.ignore_thresh)
IgnoreMaskInclusive(best, thresh) ==
    IF Less(best, thresh) \/ (GreaterEqual(best, thresh) /\ GreaterEqual(thresh, best))
    THEN 1 ELSE 0
IgnoreMask(best, thresh) == IF Less(best, thresh) THEN 1 ELSE 0

\* conf_delta of one position, in quarters: first pred_box_conf - 0 times
\* the ignore mask, then the combination with the object term.
ConfDelta(ci, best, cfg) ==
    LET conf_delta == (ci.conf - 0) * IgnoreMask(best, cfg.ignore_thresh)
    IN  ci.obj * (ci.conf - 4 * ci.obj) * cfg.obj_scale
          + (1 - ci.obj) * conf_delta * cfg.noobj_scale

\* tf.reduce_sum of a tensor of floats over all positions.
RECURSIVE reduce_sum(_, _)
reduce_sum(t, k) == IF k = 0 THEN Num(0) ELSE Plus(reduce_sum(t, k - 1), t[k])

\* tf.to_float(x >= level) * detect_mask * class_mask
RecallTerm(iou, level, detect, class) ==
    Num((IF GreaterEqual(iou, level) THEN 1 ELSE 0) * detect * class)

\* The online statistics.  Each is the float quotient num / (den + 1e-3);
\* the denominator is positive, so the statistic is NaN exactly when num
\* is, and 0 exactly when num is 0.
Statistics(cells) ==
    LET K           == NumAnchors
        iou_scores  == [c \in LossCells |->
                          MaskTimes(cells[c].obj, StatIou(cells[c].pred, cells[c].truth))]
        count       == reduce_sum([c \in LossCells |-> Num(cells[c].obj)], K)
        count_noobj == reduce_sum([c \in LossCells |-> Num(1 - cells[c].obj)], K)
        detect_mask == [c \in LossCells |->
                          IF cells[c].conf * cells[c].obj >= 2 THEN 1 ELSE 0]
        class_mask  == [c \in LossCells |-> cells[c].hit]
    IN  [recall50  |-> [num |-> reduce_sum([c \in LossCells |->
                                  RecallTerm(iou_scores[c], [n |-> 1, d |-> 2],
                                             detect_mask[c], class_mask[c])], K),
                        den |-> count],
         recall75  |-> [num |-> reduce_sum([c \in LossCells |->
                                  RecallTerm(iou_scores[c], [n |-> 3, d |-> 4],
                                             detect_mask[c], class_mask[c])], K),
                        den |-> count],
         avg_iou   |-> [num |-> reduce_sum(iou_scores, K), den |-> count],
         avg_obj   |-> [num |-> reduce_sum([c \in LossCells |->
                                  Num(cells[c].conf * cells[c].obj)], K),
                        den |-> count],
         avg_noobj |-> [num |-> reduce_sum([c \in LossCells |->
                                  Num(cells[c].conf * (1 - cells[c].obj))], K),
                        den |-> count_noobj],
         avg_cat   |-> [num |-> reduce_sum([c \in LossCells |->
                                  Num(cells[c].obj * class_mask[c])], K),
                        den |-> count]]

InitLoss ==
    /\ build = NoBuild
    /\ summed = NoSummed
    /\ replay = NoReplay
    /\ model_type = "full"
    /\ warmup_batches = 0
    /\ batch_seen = <<>>
    /\ calls = <<>>
    /\ phase = <<>>
    /\ last = NoCall
    /\ layer = NoLayer
    /\ sliced = NoSlice
    /\ pair = NoPair
    /\ \E cells \in [LossCells -> CellInputs],
          true_boxes \in [1 .. MaxBoxes -> {ZeroBox, BoxA, BoxC}] :
          fwd = [status |-> "input", cells |-> cells, true_boxes |-> true_boxes]

\* The matcher, the objectness error and the statistics of one forward pass.
Forward ==
    /\ fwd.status = "input"
    /\ LET iou_scores == [c \in LossCells |->
                             [b \in 1 .. MaxBoxes |->
                                 IgnoreIou(fwd.cells[c].pred, fwd.true_boxes[b])]]
           with_nan   == {c \in LossCells :
                             \E b \in 1 .. MaxBoxes : IsNaN(iou_scores[c][b])}
       IN  \E nan_wins \in SUBSET with_nan :
          LET best_ious  == [c \in LossCells |->
                               reduce_max(iou_scores[c], c \in nan_wins)]
          IN  fwd' = [status |-> "done", cells |-> fwd.cells,
                      true_boxes |-> fwd.true_boxes,
                      best_ious |-> best_ious,
                      conf_delta |-> [c \in LossCells |->
                                        ConfDelta(fwd.cells[c], best_ious[c], LossConfig)],
                      stats |-> Statistics(fwd.cells)]
    /\ UNCHANGED <<trainVars, gridVars, pair, build, termVars>>

NextLoss == Forward

SpecLoss == InitLoss /\ [][NextLoss]_vars

\* C5: a position without an object whose IoU with every true box is below
\* ignore_thresh has objectness error conf * noobj_scale; one whose IoU with
\* some true box is at or above ignore_thresh (equality included) has
\* objectness error 0.
IgnoreThresholdRule ==
    fwd.status = "done" =>
        \A c \in LossCells :
            fwd.cells[c].obj = 0 =>
                LET ious == [b \in 1 .. MaxBoxes |->
                                IgnoreIou(fwd.cells[c].pred, fwd.true_boxes[b])]
                IN  /\ (\A b \in 1 .. MaxBoxes :
                            Less(ious[b], LossConfig.ignore_thresh))
                        => fwd.conf_delta[c] =
                               fwd.cells[c].conf * LossConfig.noobj_scale
                    /\ (\E b \in 1 .. MaxBoxes :
                            GreaterEqual(ious[b], LossConfig.ignore_thresh))
                        => fwd.conf_delta[c] = 0

\* A position at exactly the threshold (ignored) next to one below it
\* (penalized).
IgnoreThresholdWitness ==
    /\ fwd.status = "done"
    /\ \E c, e \in LossCells :
          /\ fwd.cells[c].obj = 0
          /\ GreaterEqual(fwd.best_ious[c], LossConfig.ignore_thresh)
          /\ GreaterEqual(LossConfig.ignore_thresh, fwd.best_ious[c])
          /\ fwd.conf_delta[c] = 0
          /\ fwd.cells[e].obj = 0
          /\ Less(fwd.best_ious[e], LossConfig.ignore_thresh)
          /\ fwd.conf_delta[e] = 6

StatIsZero(st) == st.num.d > 0 /\ st.num.n = 0

\* C9: when no position of the ground truth carries an object, recall50,
\* recall75, avg_iou, avg_obj and avg_cat are all defined and equal to 0.
EmptyBatchStatisticsZero ==
    (fwd.status = "done" /\ \A c \in LossCells : fwd.cells[c].obj = 0) =>
        /\ StatIsZero(fwd.stats.recall50)
        /\ StatIsZero(fwd.stats.recall75)
        /\ StatIsZero(fwd.stats.avg_iou)
        /\ StatIsZero(fwd.stats.avg_obj)
        /\ StatIsZero(fwd.stats.avg_cat)

\* ------------------------------------------------------- the model builders
MaxAnchorLen == 19   \* longest anchors list given to a builder

\* Python values that may be None: a record with the kind of the value.
None == [kind |-> "None"]
Str(s) == [kind |-> "str", s |-> s]
PyInt(i) == [kind |-> "int", i |-> i]

\* Truth value Python gives a string or None in "elif activation:".
Truthy(v) == v.kind = "str" /\ v.s # ""

\* anchors[lo:hi] of a list of n numbers, as the set of the 1-based positions
\* it takes from the list; anchors[lo:] is anchors[lo:n].
PySlice(n, lo, hi) == {i \in 1 .. n : lo < i /\ i <= hi}
PySliceFrom(n, lo) == PySlice(n, lo, n)

\* Elements of a tensor of shape [1,1,1,3,2].
AnchorNumbers == NumAnchors * 2

\* tf.constant(values, dtype='float', shape=[1,1,1,3,2]) in TensorFlow 1: a
\* list longer than the shape is a ValueError; a shorter one (the empty list
\* included) is accepted and the missing entries are filled in.
TfConstant(count) == IF count > AnchorNumbers THEN "ValueError" ELSE "ok"

\* YoloLayer(anchors_slice, ...): the instance and the outcome of __init__.
YoloLayer(name, anchors) ==
    [name |-> name, anchors |-> anchors,
     status |-> TfConstant(Cardinality(anchors))]

\* Static broadcasting of two axis lengths when an operation is traced.
Broadcasts(a, b) == a = b \/ a = 1 \/ b = 1

\* The model a builder returns once every loss layer has been traced:
\* tracing fails when an anchors constant cannot be built or when the anchor
\* axis of the ground-truth input does not broadcast against the 3 anchors.
Models(true_anchors, loss_layers, infer_outputs) ==
    IF \/ \E i \in DOMAIN loss_layers : loss_layers[i].status = "ValueError"
       \/ ~Broadcasts(true_anchors, NumAnchors)
    THEN [status |-> "ValueError"]
    ELSE [status |-> "built", loss_layers |-> loss_layers,
          train_outputs |-> [i \in DOMAIN loss_layers |-> loss_layers[i].name],
          infer_outputs |-> infer_outputs]

create_yolov3_model(n) ==
    Models(n \div 6,
           <<YoloLayer("loss_yolo_1", PySliceFrom(n, 12)),
             YoloLayer("loss_yolo_2", PySlice(n, 6, 12)),
             YoloLayer("loss_yolo_3", PySlice(n, 0, 6))>>,
           <<"pred_yolo_1", "pred_yolo_2", "pred_yolo_3">>)

create_tiny_yolov3_model(n) ==
    IF n # 3 * 2 * 2
    THEN [status |-> "AssertionError"]
    ELSE Models(3,
                <<YoloLayer("loss_yolo_1", PySliceFrom(n, 12)),
                  YoloLayer("loss_yolo_2", PySlice(n, 6, 12))>>,
                <<"pred_yolo_1", "pred_yolo_2">>)

create_micro_yolov3_model(n) ==
    IF n # 3 * 2 * 2
    THEN [status |-> "AssertionError"]
    ELSE Models(3,
                <<YoloLayer("loss_yolo_1", PySliceFrom(n, 12)),
                  YoloLayer("loss_yolo_2", PySlice(n, 6, 12))>>,
                <<"pred_yolo_1", "pred_yolo_2">>)

\* generators[model_type](anchors, ...)
create_yolo_model(mt, n) ==
    IF mt \notin ModelTypes
    THEN [status |-> "KeyError"]
    ELSE CASE mt = "full"  -> create_yolov3_model(n)
           [] mt = "tiny"  -> create_tiny_yolov3_model(n)
           [] mt = "micro" -> create_micro_yolov3_model(n)

\* scales[model_type] of get_num_yolo_scales, with the outcome of the lookup.
scales(mt) ==
    IF mt \in ModelTypes
    THEN [status |-> "returned", value |-> get_num_yolo_scales(mt)]
    ELSE [status |-> "KeyError"]

ActivationIgnored(activation, then) == then

\* "elif activation: raise RuntimeError(...)"
ActivationElse(activation, then) ==
    IF Truthy(activation) THEN [status |-> "RuntimeError"] ELSE then

darknet_conv_block_layers(filter, strides, max_pool_size, max_pool_stride, activation, batch_normalization) ==
    LET conv == IF filter # None
                THEN (IF strides > 1 THEN <<"ZeroPadding2D">> ELSE <<>>)
                     \o <<"Conv2D">>
                ELSE <<>>
        bn   == IF batch_normalization THEN <<"BatchNormalization">> ELSE <<>>
        pool == IF max_pool_size # None /\ max_pool_stride # None
                THEN <<"MaxPooling2D">> ELSE <<>>
    IN  IF activation = Str("LeakyReLU")
        THEN [status |-> "returned",
              layers |-> conv \o bn \o <<"LeakyReLU">> \o pool]
        ELSE ActivationElse(activation,
                 [status |-> "returned", layers |-> conv \o bn \o pool])

ModelTypeArgs  == ModelTypes \cup {"huge"}
ActivationArgs == {Str("LeakyReLU"), Str("ReLU"), Str(""), None}

InitBuild ==
    /\ summed = NoSummed
    /\ replay = NoReplay
    /\ model_type = "full"
    /\ warmup_batches = 0
    /\ batch_seen = <<>>
    /\ calls = <<>>
    /\ phase = <<>>
    /\ last = NoCall
    /\ layer = NoLayer
    /\ sliced = NoSlice
    /\ pair = NoPair
    /\ fwd = NoFwd
    /\ \E mt \in ModelTypeArgs, n \in 0 .. MaxAnchorLen,
          activation \in ActivationArgs, filter \in {None, PyInt(16)},
          batch_normalization \in BOOLEAN :
          build = [model_type |-> mt, anchors |-> n,
                   activation |-> activation, filter |-> filter,
                   batch_normalization |-> batch_normalization,
                   model |-> [status |-> "none"],
                   num_scales |-> [status |-> "none"],
                   block |-> [status |-> "none"]]

\* create_yolo_model(model_type, anchors, ...)
CreateYoloModel ==
    /\ build.model.status = "none"
    /\ build' = [build EXCEPT
                    !.model = create_yolo_model(build.model_type, build.anchors)]
    /\ UNCHANGED <<trainVars, gridVars, lossVars, termVars>>

\* get_num_yolo_scales(model_type)
GetNumYoloScales ==
    /\ build.num_scales.status = "none"
    /\ build' = [build EXCEPT !.num_scales = scales(build.model_type)]
    /\ UNCHANGED <<trainVars, gridVars, lossVars, termVars>>

\* darknet_conv_block_layers(layer_index, filter, strides=1|2, ...)
DarknetConvBlockLayers ==
    /\ build.block.status = "none"
    /\ \E strides \in {1, 2}, max_pool \in {None, PyInt(2)} :
          build' = [build EXCEPT !.block =
                       darknet_conv_block_layers(build.filter, strides,
                           max_pool, max_pool, build.activation,
                           build.batch_normalization)]
    /\ UNCHANGED <<trainVars, gridVars, lossVars, termVars>>

NextBuild == CreateYoloModel \/ GetNumYoloScales \/ DarknetConvBlockLayers

SpecBuild == InitBuild /\ [][NextBuild]_vars

Built == build.model.status = "built"

\* C11 (as claimed): every builder fails with a fatal error when the anchors
\* list has a length that is not a multiple of 6; none accepts such a list.
MalformedAnchorsRejected ==
    (build.model_type \in ModelTypes /\ build.anchors % 6 # 0
       /\ build.model.status # "none")
    => build.model.status \in {"AssertionError", "ValueError"}

\* C12 (as claimed): in every model a builder returns, each loss layer
\* received exactly 6 anchor numbers and no two layers received a common
\* element of the anchors list.
AnchorSlicesPartition ==
    Built =>
       /\ \A i \in DOMAIN build.model.loss_layers :
             Cardinality(build.model.loss_layers[i].anchors) = 6
       /\ \A i, j \in DOMAIN build.model.loss_layers :
             i # j => build.model.loss_layers[i].anchors
                        \cap build.model.loss_layers[j].anchors = {}

\* Reachable: a builder accepted an anchors list whose length is not a
\* multiple of 6 (C11) and gave a loss layer fewer than 6 numbers (C12).
MalformedAnchorsAccepted ==
    Built /\ build.anchors % 6 # 0

EmptyAnchorSlice ==
    /\ Built
    /\ build.model_type = "tiny"
    /\ build.model.loss_layers[1].anchors = {}

\* C13: get_num_yolo_scales returns 3 for "full" and 2 for "tiny" and
\* "micro", which is the number of outputs of the train model and of the
\* inference model that create_yolo_model builds for that model type.
ScaleCountMatchesOutputs ==
    /\ build.num_scales.status = "returned" =>
          build.num_scales.value = (IF build.model_type = "full" THEN 3 ELSE 2)
    /\ (Built /\ build.num_scales.status = "returned") =>
          /\ Len(build.model.train_outputs) = build.num_scales.value
          /\ Len(build.model.infer_outputs) = build.num_scales.value

ScaleCountWitness ==
    /\ Built
    /\ build.num_scales.status = "returned"
    /\ build.model_type = "micro"
    /\ Len(build.model.train_outputs) = 2

\* C14 (as claimed): an unknown model type given to create_yolo_model or to
\* get_num_yolo_scales, and an activation value other than "LeakyReLU" given
\* to darknet_conv_block_layers, each end in a fatal error.
UnsupportedArgumentsFatal ==
    /\ (build.model_type \notin ModelTypes /\ build.model.status # "none")
          => build.model.status = "KeyError"
    /\ (build.model_type \notin ModelTypes /\ build.num_scales.status # "none")
          => build.num_scales.status = "KeyError"
    /\ (build.activation # Str("LeakyReLU") /\ build.block.status # "none")
          => build.block.status = "RuntimeError"

\* C14 (amended): an unknown model type ends both functions in a KeyError;
\* an activation value that is truthy and not "LeakyReLU" ends
\* darknet_conv_block_layers in a RuntimeError; a falsy activation value
\* (None, the empty string) returns the layer list without an activation
\* layer, and "LeakyReLU" returns it with one.
UnsupportedArgumentsFatalUnlessFalsy ==
    /\ (build.model_type \notin ModelTypes /\ build.model.status # "none")
          => build.model.status = "KeyError"
    /\ (build.model_type \notin ModelTypes /\ build.num_scales.status # "none")
          => build.num_scales.status = "KeyError"
    /\ build.block.status # "none" =>
          IF build.activation = Str("LeakyReLU")
          THEN /\ build.block.status = "returned"
               /\ \E i \in DOMAIN build.block.layers :
                     build.block.layers[i] = "LeakyReLU"
          ELSE IF Truthy(build.activation)
          THEN build.block.status = "RuntimeError"
          ELSE /\ build.block.status = "returned"
               /\ \A i \in DOMAIN build.block.layers :
                     build.block.layers[i] # "LeakyReLU"

UnsupportedArgumentsWitness ==
    /\ build.model_type \notin ModelTypes
    /\ build.model.status = "KeyError"
    /\ build.num_scales.status = "KeyError"
    /\ build.activation = Str("ReLU")
    /\ build.block.status = "RuntimeError"

\* ------------------------------------------------- the loss a call returns
\* Tensors of the loss assembly are functions on index tuples
\* <<batch, row, column, anchor, component>>; an axis of length 1 has the
\* single index 0.  Values are integers in the units of the inputs.
TensorRank == 5      \* axes of xy_delta, wh_delta, conf_delta, class_delta

LossScales == [xywh_scale |-> 2, class_scale |-> 3]

\* Per cell and anchor: the quantities the four error tensors are built
\* from (object indicator, prediction minus target for center, size and
\* objectness, the size weight, the ignore-masked objectness of line 104
\* and the class cross-entropy).
TermCases ==
    {[obj |-> 1, dxy |-> <<1, -1>>, dwh |-> <<2, 0>>, wh_scale |-> 1,
      dconf |-> -1, conf_delta |-> 3, ce |-> 2],
     [obj |-> 0, dxy |-> <<3, 1>>, dwh |-> <<1, 1>>, wh_scale |-> 2,
      dconf |-> 1, conf_delta |-> 1, ce |-> 5],
     [obj |-> 0, dxy |-> <<1, 0>>, dwh |-> <<0, -1>>, wh_scale |-> 2,
      dconf |-> 2, conf_delta |-> 0, ce |-> 1]}

\* Index tuples of a tensor of shape (batch, 1, 1, 3, comps).
TensorIndex(batch, comps) ==
    (1 .. batch) \X {0} \X {0} \X (0 .. NumAnchors - 1) \X (0 .. comps - 1)

\* list(range(1,5))
LossAxesAll == 0 .. 4
LossAxes == 1 .. 4

\* The index left of index i when the axes in axes are reduced away.
KeptIndex(i, axes) == [a \in (0 .. TensorRank - 1) \ axes |-> i[a + 1]]

RECURSIVE SumOver(_, _)
SumOver(t, idx) ==
    IF idx = {} THEN 0
    ELSE LET i == CHOOSE j \in idx : TRUE
         IN  t[i] + SumOver(t, idx \ {i})

\* tf.reduce_sum(t, axes)
reduce_sum_axes(t, axes) ==
    LET out == {KeptIndex(i, axes) : i \in DOMAIN t}
    IN  [o \in out |-> SumOver(t, {i \in DOMAIN t : KeptIndex(i, axes) = o})]

\* tf.square(t)
square(t) == [i \in DOMAIN t |-> t[i] * t[i]]

\* Lines 165-192 for a batch of cells; warm tells the branch of the tf.cond
\* that produced xywh_mask.
LossOf(cells, batch, warm, grid_scale) ==
    LET cell(i)    == cells[<<i[1], i[4]>>]
        xywh_mask(i) == IF warm THEN 1 ELSE cell(i).obj
        xy_delta   == [i \in TensorIndex(batch, 2) |->
                          xywh_mask(i) * cell(i).dxy[i[5] + 1]
                             * cell(i).wh_scale * LossScales.xywh_scale]
        wh_delta   == [i \in TensorIndex(batch, 2) |->
                          xywh_mask(i) * cell(i).dwh[i[5] + 1]
                             * cell(i).wh_scale * LossScales.xywh_scale]
        conf_delta == [i \in TensorIndex(batch, 1) |->
                          cell(i).obj * cell(i).dconf * LossConfig.obj_scale
                          + (1 - cell(i).obj) * cell(i).conf_delta
                               * LossConfig.noobj_scale]
        class_delta == [i \in TensorIndex(batch, 1) |->
                          cell(i).obj * cell(i).ce * LossScales.class_scale]
        loss_xy    == reduce_sum_axes(square(xy_delta), LossAxes)
        loss_wh    == reduce_sum_axes(square(wh_delta), LossAxes)
        loss_conf  == reduce_sum_axes(square(conf_delta), LossAxes)
        loss_class == reduce_sum_axes(class_delta, LossAxes)
        loss       == [o \in DOMAIN loss_xy |->
                          loss_xy[o] + loss_wh[o] + loss_conf[o] + loss_class[o]]
    IN  [xy_delta |-> xy_delta, wh_delta |-> wh_delta,
         conf_delta |-> conf_delta, class_delta |-> class_delta,
         loss |-> [o \in DOMAIN loss |-> loss[o] * grid_scale]]

InitSum ==
    /\ build = NoBuild
    /\ replay = NoReplay
    /\ model_type = "full"
    /\ warmup_batches = 0
    /\ batch_seen = <<>>
    /\ calls = <<>>
    /\ phase = <<>>
    /\ last = NoCall
    /\ layer = NoLayer
    /\ sliced = NoSlice
    /\ pair = NoPair
    /\ fwd = NoFwd
    /\ \E batch \in 1 .. MaxBatchSize, warm \in BOOLEAN, grid_scale \in {1, 2} :
       \E cells \in [(1 .. batch) \X (0 .. NumAnchors - 1) -> TermCases] :
          summed = [status |-> "input", batch |-> batch, warm |-> warm,
                    grid_scale |-> grid_scale, cells |-> cells]

\* The loss assembly and the return statement of one forward pass.
Assemble ==
    /\ summed.status = "input"
    /\ summed' = [status |-> "done", batch |-> summed.batch,
                  warm |-> summed.warm, grid_scale |-> summed.grid_scale,
                  cells |-> summed.cells,
                  out |-> LossOf(summed.cells, summed.batch, summed.warm,
                                 summed.grid_scale)]
    /\ UNCHANGED <<trainVars, gridVars, lossVars, build, replay>>

NextSum == Assemble

SpecSum == InitSum /\ [][NextSum]_vars

\* The index of batch element b in a tensor whose only axis is the batch axis.
BatchIndex(b) == [a \in {0} |-> b]

\* C15: the returned loss has exactly one scalar per batch element, and the
\* scalar of element b is grid_scale times the sum, over the anchors and cells
\* of element b alone, of the squared center, squared size and squared
\* objectness errors and the unsquared class cross-entropy term.
LossPerBatchElement ==
    summed.status = "done" =>
       /\ DOMAIN summed.out.loss = {BatchIndex(b) : b \in 1 .. summed.batch}
       /\ \A b \in 1 .. summed.batch :
             LET term(a) ==
                    LET c == summed.cells[<<b, a>>]
                        m == IF summed.warm THEN 1 ELSE c.obj
                        w == m * c.wh_scale * LossScales.xywh_scale
                        o == c.obj * c.dconf * LossConfig.obj_scale
                             + (1 - c.obj) * c.conf_delta * LossConfig.noobj_scale
                    IN  (w * c.dxy[1]) * (w * c.dxy[1])
                        + (w * c.dxy[2]) * (w * c.dxy[2])
                        + (w * c.dwh[1]) * (w * c.dwh[1])
                        + (w * c.dwh[2]) * (w * c.dwh[2])
                        + o * o
                        + c.obj * c.ce * LossScales.class_scale
             IN  summed.out.loss[BatchIndex(b)]
                    = summed.grid_scale * (term(0) + term(1) + term(2))

\* A batch of two elements with different cells gets two different losses.
LossPerBatchElementWitness ==
    /\ summed.status = "done"
    /\ summed.batch = 2
    /\ summed.grid_scale = 2
    /\ summed.out.loss[BatchIndex(1)] # summed.out.loss[BatchIndex(2)]
    /\ \E a \in 0 .. NumAnchors - 1 : summed.cells[<<1, a>>].obj = 1

\* ------------------------------------- one layer replayed on the same inputs
\* exp(t) * anchor / net_factor for a size logit t, in eighths of the image
\* side; powers of two stand in for exp (positive and increasing).
DecodeSize(t) ==
    CASE t = -1 -> 1
      [] t = 0  -> 2
      [] t = 1  -> 4
      [] t = 2  -> 8

\* The box of a center xy (half-cell units, on a 1 x 1 grid) and size logits
\* wh: xy / grid_factor and exp(wh) * anchors / net_factor, centers in
\* sixteenths and sizes in eighths of the image side.
DecodeBox(xy, wh) ==
    [cx |-> 8 * xy[1], cy |-> 8 * xy[2],
     w |-> DecodeSize(wh[1]), h |-> DecodeSize(wh[2])]

\* wh_scale = 2 - w * h of the normalised target size, in 64ths.
WhScale(wh) == 2 * 64 - DecodeSize(wh[1]) * DecodeSize(wh[2])

\* The mask that weighs the objectness and class terms (lines 167-168).
LossXywhMask(object_mask, xywh_mask) == xywh_mask
LossObjectMask(object_mask, xywh_mask) == object_mask

\* Predictions explored at a position: <<pred_box_xy, pred_box_wh, conf>>
\* with the class of a confident prediction right (cross-entropy 1) and
\* that of an unsure one wrong (cross-entropy 4).
Predictions ==
    {[xy |-> <<1, 1>>, wh |-> <<0, -1>>, conf |-> 3],
     [xy |-> <<1, 1>>, wh |-> <<1, 0>>, conf |-> 1],
     [xy |-> <<2, 1>>, wh |-> <<0, -1>>, conf |-> 1],
     [xy |-> <<2, 1>>, wh |-> <<1, 1>>, conf |-> 3]}

CrossEntropy(p) == IF p.conf = 3 THEN 1 ELSE 4

\* One forward pass of a layer on a 1 x 1 grid: every output of call that a
\* loss term or a statistic is made of.
ForwardPass(y_true, y_pred, true_boxes, warm) ==
    LET pos(c)  == <<0, 0, c - 1>>
        cells   == [c \in LossCells |->
                      [obj   |-> y_true[pos(c)].obj,
                       truth |-> DecodeBox(y_true[pos(c)].xy, y_true[pos(c)].wh),
                       pred  |-> DecodeBox(y_pred[c].xy, y_pred[c].wh),
                       conf  |-> y_pred[c].conf,
                       hit   |-> IF y_pred[c].conf = 3 THEN 1 ELSE 0]]
        best_ious == [c \in LossCells |->
                        reduce_max([b \in 1 .. MaxBoxes |->
                                      IgnoreIou(cells[c].pred, true_boxes[b])],
                                   FALSE)]
        target  == WarmupCond(y_true, CellGridSlice(1, 1, 1), warm)
        mask(c) == LossObjectMask(cells[c].obj, target[pos(c)].mask)
        delta(c, pred, true, k) ==
            target[pos(c)].mask * (pred[k] - true[k])
               * WhScale(target[pos(c)].wh) * LossScales.xywh_scale
    IN  [warm |-> warm,
         object_mask |-> [c \in LossCells |-> cells[c].obj],
         ignore_mask |-> [c \in LossCells |->
                            IgnoreMask(best_ious[c], LossConfig.ignore_thresh)],
         stats |-> Statistics(cells),
         xy_delta |-> [c \in LossCells |->
                         [k \in 1 .. 2 |->
                            delta(c, y_pred[c].xy, target[pos(c)].xy, k)]],
         wh_delta |-> [c \in LossCells |->
                         [k \in 1 .. 2 |->
                            delta(c, y_pred[c].wh, target[pos(c)].wh, k)]],
         conf_delta |-> [c \in LossCells |->
                           ConfDelta([cells[c] EXCEPT !.obj = mask(c)],
                                     best_ious[c], LossConfig)],
         class_delta |-> [c \in LossCells |->
                            mask(c) * CrossEntropy(y_pred[c])
                               * LossScales.class_scale]]

ObjectBox == DecodeBox(<<1, 1>>, <<1, -1>>)
FarBox    == DecodeBox(<<2, 2>>, <<0, 0>>)

InitPhase ==
    /\ build = NoBuild
    /\ summed = NoSummed
    /\ model_type = "full"
    /\ warmup_batches = 0
    /\ batch_seen = <<>>
    /\ calls = <<>>
    /\ phase = <<>>
    /\ last = NoCall
    /\ layer = NoLayer
    /\ sliced = NoSlice
    /\ pair = NoPair
    /\ fwd = NoFwd
    /\ \E wb \in 0 .. MaxWarmup, fill \in {0, 1}, objs \in ObjectSets(1, 1),
          y_pred \in [LossCells -> Predictions],
          true_boxes \in [1 .. MaxBoxes -> {ZeroBox, ObjectBox, FarBox}] :
          replay = [warmup_batches |-> wb, batch_seen |-> 0,
                    y_true |-> GroundTruth(1, 1, objs, fill),
                    y_pred |-> y_pred, true_boxes |-> true_boxes,
                    runs |-> <<>>]

\* A forward invocation of the layer on the inputs of the previous ones.
Replay ==
    /\ replay.batch_seen <= replay.warmup_batches
    /\ LET after == assign_add(replay.batch_seen)
           seen  == CondReads(replay.batch_seen, after)
           warm  == InWarmup(seen, replay.warmup_batches)
       IN  replay' = [replay EXCEPT
                         !.batch_seen = after,
                         !.runs = Append(@, ForwardPass(replay.y_true,
                                      replay.y_pred, replay.true_boxes, warm))]
    /\ UNCHANGED <<trainVars, gridVars, lossVars, build, summed>>

NextPhase == Replay

SpecPhase == InitPhase /\ [][NextPhase]_vars

\* C17: for identical inputs, an invocation in the warm-up phase and one
\* after it give the same objectness error, class error, ignore mask and
\* statistics, and at every object-bearing cell the same center and size
\* errors; the center and size errors differ at empty cells only.
WarmupChangesOnlyEmptyCells ==
    \A i, j \in DOMAIN replay.runs :
       LET r == replay.runs[i]
           q == replay.runs[j]
       IN  /\ r.conf_delta = q.conf_delta
           /\ r.class_delta = q.class_delta
           /\ r.ignore_mask = q.ignore_mask
           /\ r.stats = q.stats
           /\ \A c \in LossCells :
                 (r.xy_delta[c] # q.xy_delta[c] \/ r.wh_delta[c] # q.wh_delta[c])
                    => r.object_mask[c] = 0

\* A warm-up and a later invocation on inputs with an object cell and an
\* empty cell, whose center errors differ at the empty cell.
WarmupChangesWitness ==
    \E i, j \in DOMAIN replay.runs :
       /\ replay.runs[i].warm
       /\ ~replay.runs[j].warm
       /\ \E c, e \in LossCells :
             /\ replay.runs[i].object_mask[c] = 1
             /\ replay.runs[i].xy_delta[c] # <<0, 0>>
             /\ replay.runs[i].object_mask[e] = 0
             /\ replay.runs[i].xy_delta[e] # replay.runs[j].xy_delta[e]
             /\ replay.runs[i].conf_delta[e] # 0

====
